---- MODULE Spec2Model ----
(***************************************************************************)
(* wetlog: extraction of log entries from the per-node system.log files of *)
(* a cluster diagnostics bundle (main.go).                                 *)
(*                                                                         *)
(* Text is modelled as a sequence of one-character strings, so that the    *)
(* regular expressions, strings.Contains/SplitN/Split and time.Parse are   *)
(* computed character by character the way the Go code computes them.      *)
(***************************************************************************)
EXTENDS Integers, Sequences, FiniteSets, Bags, TLC

(***************************************************************************)
(* Bounds of the model.                                                    *)
(***************************************************************************)
\* largest number of selected sources (len(filteredNodes)) in a run
MaxNodes == 2
\* largest number of physical lines of a log file in the single-scanner runs
MaxLines == 3
\* longest text given to matchQuery in the function-level runs
MaxText == 4
\* longest query chain given to matchQuery in the function-level runs
MaxTerms == 2
\* largest number of lines of a status report in the function-level runs
MaxReport == 3

(***************************************************************************)
(* Characters and character classes of Go's regexp (ASCII classes).        *)
(***************************************************************************)
DigitChars == <<"0", "1", "2", "3", "4", "5", "6", "7", "8", "9">>

Digits == {DigitChars[i] : i \in 1..10}

Upper == {"A", "B", "C", "D", "E", "F", "G", "H", "I", "J", "K", "L", "M",
          "N", "O", "P", "Q", "R", "S", "T", "U", "V", "W", "X", "Y", "Z"}

Lower == {"a", "b", "c", "d", "e", "f", "g", "h", "i", "j", "k", "l", "m",
          "n", "o", "p", "q", "r", "s", "t", "u", "v", "w", "x", "y", "z"}

\* \w of Go's regexp: [0-9A-Za-z_]
WordChars == Digits \cup Upper \cup Lower \cup {"_"}

\* \s of Go's regexp: [\t\n\f\r ]
SpaceChars == {" ", "\t", "\n", "\f", "\r"}

DigitVal(c) == (CHOOSE i \in 1..10 : DigitChars[i] = c) - 1

\* the decimal digits of n, zero-padded to width w (how the log writer
\* prints the fields of a timestamp)
RECURSIVE Pad(_, _)
Pad(n, w) == IF w = 0 THEN <<>>
             ELSE Pad(n \div 10, w - 1) \o <<DigitChars[(n % 10) + 1]>>

\* the value of the w decimal digits of s starting at position i (1-based)
RECURSIVE Atoi(_, _, _)
Atoi(s, i, w) == IF w = 0 THEN 0
                 ELSE Atoi(s, i, w - 1) * 10 + DigitVal(s[i + w - 1])

(***************************************************************************)
(* package strings                                                         *)
(***************************************************************************)
\* s[i:] of Go, i a 0-based offset
From(s, i) == SubSeq(s, i + 1, Len(s))

\* whether sub occurs in s at 0-based offset i
OccursAt(s, sub, i) ==
    /\ i >= 0
    /\ i + Len(sub) <= Len(s)
    /\ SubSeq(s, i + 1, i + Len(sub)) = sub

\* strings.Index: the 0-based offset of the first occurrence, -1 if none
Index(s, sub) ==
    LET found == {i \in 0..(Len(s) - Len(sub)) : OccursAt(s, sub, i)}
    IN  IF found = {} THEN -1
        ELSE CHOOSE i \in found : \A j \in found : i <= j

\* (mutation) an empty substring is reported as not contained
ContainsNonEmpty(s, sub) == sub # <<>> /\ Index(s, sub) >= 0

\* strings.Contains
Contains(s, sub) == Index(s, sub) >= 0

\* strings.SplitN(s, sep, 2).  An empty separator explodes s into its
\* characters, at most 2 pieces and never more pieces than characters.
SplitN2(s, sep) ==
    IF sep = <<>>
    THEN (IF Len(s) = 0 THEN <<>>
          ELSE IF Len(s) = 1 THEN <<s>>
          ELSE <<SubSeq(s, 1, 1), From(s, 1)>>)
    ELSE LET i == Index(s, sep)
         IN  IF i < 0 THEN <<s>>
             ELSE <<SubSeq(s, 1, i), From(s, i + Len(sep))>>

\* strings.Split(s, ","): all the pieces between commas; Split("") = [""]
RECURSIVE SplitComma(_)
SplitComma(s) ==
    LET i == Index(s, <<",">>)
    IN  IF i < 0 THEN <<s>>
        ELSE <<SubSeq(s, 1, i)>> \o SplitComma(From(s, i + 1))

(***************************************************************************)
(* matchQuery (main.go:353).  The result is either a boolean or a run-time *)
(* panic: SplitN(...)[1] indexes past the end when the pieces are fewer    *)
(* than two.                                                               *)
(***************************************************************************)
\* (mutation) every term is searched in the whole text: textToSearch is
\* not advanced past the previous match
RECURSIVE matchLoopWholeText(_, _, _)
matchLoopWholeText(textToSearch, queries, k) ==
    IF k > Len(queries) THEN [panicked |-> FALSE, result |-> TRUE]
    ELSE IF Contains(textToSearch, queries[k])
         THEN matchLoopWholeText(textToSearch, queries, k + 1)
         ELSE [panicked |-> FALSE, result |-> FALSE]

RECURSIVE matchLoop(_, _, _)
matchLoop(textToSearch, queries, k) ==
    IF k > Len(queries) THEN [panicked |-> FALSE, result |-> TRUE]
    ELSE IF Contains(textToSearch, queries[k])
         THEN LET parts == SplitN2(textToSearch, queries[k])
              IN  IF Len(parts) < 2
                  THEN [panicked |-> TRUE, result |-> FALSE]
                  ELSE matchLoop(parts[2], queries, k + 1)
         ELSE [panicked |-> FALSE, result |-> FALSE]

matchQuery(message, queries) ==
    IF Len(queries) = 0 THEN [panicked |-> FALSE, result |-> TRUE]
    ELSE matchLoop(message, queries, 1)

(***************************************************************************)
(* Line classification (main.go:221-313, 347-350).                         *)
(***************************************************************************)
DEBUG == 0
INFO == 1
WARN == 2
ERROR == 3

tDEBUG == <<"D", "E", "B", "U", "G">>
tINFO == <<"I", "N", "F", "O">>
tWARN == <<"W", "A", "R", "N">>
tERROR == <<"E", "R", "R", "O", "R">>

\* the length of the longest prefix of line made of word characters
RECURSIVE WordRun(_, _)
WordRun(line, n) ==
    IF n < Len(line) /\ line[n + 1] \in WordChars THEN WordRun(line, n + 1) ELSE n

\* regexp ^\w+\s
startsWithLogLevel(line) ==
    /\ WordRun(line, 0) >= 1
    /\ WordRun(line, 0) < Len(line)
    /\ line[WordRun(line, 0) + 1] \in SpaceChars

\* group 1 of ^(\w+)\s
LeadingToken(line) == SubSeq(line, 1, WordRun(line, 0))

\* ParseLogLevel: exact, case-sensitive names
ParseLogLevel(logLevelStr) ==
    IF logLevelStr = tDEBUG THEN [err |-> FALSE, level |-> DEBUG]
    ELSE IF logLevelStr = tINFO THEN [err |-> FALSE, level |-> INFO]
    ELSE IF logLevelStr = tWARN THEN [err |-> FALSE, level |-> WARN]
    ELSE IF logLevelStr = tERROR THEN [err |-> FALSE, level |-> ERROR]
    ELSE [err |-> TRUE, level |-> 0]

\* the shape \d{4}-\d{2}-\d{2}\s\d{2}:\d{2}:\d{2},\d{3}, one class per position
TsShape == <<"d", "d", "d", "d", "-", "d", "d", "-", "d", "d", "s",
             "d", "d", ":", "d", "d", ":", "d", "d", ",", "d", "d", "d">>

TsLen == 23

CharFits(c, cls) ==
    IF cls = "d" THEN c \in Digits
    ELSE IF cls = "s" THEN c \in SpaceChars
    ELSE c = cls

\* whether the timestamp pattern matches line at 1-based position i
TsAt(line, i) ==
    /\ i >= 1
    /\ i + TsLen - 1 <= Len(line)
    /\ \A k \in 1..TsLen : CharFits(line[i + k - 1], TsShape[k])

\* the positions at which the timestamp pattern matches
TsMatches(line) == {i \in 1..(Len(line) - TsLen + 1) : TsAt(line, i)}

HasTs(line) == TsMatches(line) # {}

\* the leftmost match of the timestamp pattern (FindStringSubmatch)
FirstTs(line) ==
    LET at == TsMatches(line)
        i == CHOOSE i \in at : \A j \in at : i <= j
    IN  SubSeq(line, i, i + TsLen - 1)

isLeap(year) == year % 4 = 0 /\ (year % 100 # 0 \/ year % 400 = 0)

\* (mutation) no validation of the day against the month
daysInAlways31(month, year) == 31

daysIn(month, year) ==
    IF month = 2 THEN (IF isLeap(year) THEN 29 ELSE 28)
    ELSE IF month \in {4, 6, 9, 11} THEN 30
    ELSE 31

ZeroTime == [year |-> 1, month |-> 1, day |-> 1, hour |-> 0, min |-> 0, sec |-> 0, ms |-> 0]

\* (mutation) the fields are read without any range check
ParseDateUnchecked(s) ==
    [err |-> FALSE,
     date |-> [year |-> Atoi(s, 1, 4), month |-> Atoi(s, 6, 2), day |-> Atoi(s, 9, 2),
               hour |-> Atoi(s, 12, 2), min |-> Atoi(s, 15, 2), sec |-> Atoi(s, 18, 2),
               ms |-> Atoi(s, 21, 3)]]

\* ParseDate: time.Parse with layout "2006-01-02 15:04:05,000" on a string
\* of the timestamp shape.  The layout's separators are literal (a single
\* space between date and time), the fields are range-checked and the day
\* is validated against the month and year.
ParseDate(s) ==
    LET year == Atoi(s, 1, 4)
        month == Atoi(s, 6, 2)
        day == Atoi(s, 9, 2)
        hour == Atoi(s, 12, 2)
        min == Atoi(s, 15, 2)
        sec == Atoi(s, 18, 2)
        ms == Atoi(s, 21, 3)
        ok == /\ s[11] = " "
              /\ month >= 1 /\ month <= 12
              /\ hour < 24 /\ min < 60 /\ sec < 60
              /\ day >= 1 /\ day <= daysIn(month, year)
    IN  IF ok
        THEN [err |-> FALSE,
              date |-> [year |-> year, month |-> month, day |-> day,
                        hour |-> hour, min |-> min, sec |-> sec, ms |-> ms]]
        ELSE [err |-> TRUE, date |-> ZeroTime]

\* the nil *LogEntry
NoEntry == [LogLevel |-> 0, Date |-> ZeroTime, LineNumber |-> 0,
            NodeIP |-> <<>>, FilePath |-> <<>>, Message |-> <<>>]

\* ProcessLine: (entry, err); entry is nil unless both the severity and the
\* timestamp were parsed.
ProcessLine(line, lineNumber, filePath) ==
    LET logLevel == ParseLogLevel(LeadingToken(line))
        date == ParseDate(FirstTs(line))
    IN  IF ~startsWithLogLevel(line)
        THEN [nil |-> TRUE, err |-> FALSE, entry |-> NoEntry]
        ELSE IF logLevel.err
        THEN [nil |-> TRUE, err |-> TRUE, entry |-> NoEntry]
        ELSE IF ~HasTs(line)
        THEN [nil |-> TRUE, err |-> FALSE, entry |-> NoEntry]
        ELSE IF date.err
        THEN [nil |-> TRUE, err |-> TRUE, entry |-> NoEntry]
        ELSE [nil |-> FALSE, err |-> FALSE,
              entry |-> [LogLevel |-> logLevel.level,
                         Date |-> date.date,
                         LineNumber |-> lineNumber,
                         NodeIP |-> <<>>,
                         FilePath |-> filePath,
                         Message |-> line]]

(***************************************************************************)
(* Inputs of the runs: log lines, log files, query flags, sources.         *)
(***************************************************************************)
\* a timestamp as the log writer prints it, sep between date and time
FormatTs(year, month, day, hour, min, sec, ms, sep) ==
    Pad(year, 4) \o <<"-">> \o Pad(month, 2) \o <<"-">> \o Pad(day, 2) \o <<sep>>
    \o Pad(hour, 2) \o <<":">> \o Pad(min, 2) \o <<":">> \o Pad(sec, 2)
    \o <<",">> \o Pad(ms, 3)

\* "INFO 2023-07-13 12:00:00,000 a"
LineInfoA == tINFO \o <<" ">> \o FormatTs(2023, 7, 13, 12, 0, 0, 0, " ") \o <<" ", "a">>
\* "ERROR 2023-07-13 12:00:01,128 b"
LineErrorB == tERROR \o <<" ">> \o FormatTs(2023, 7, 13, 12, 0, 1, 128, " ") \o <<" ", "b">>
\* " b": no leading word token
LineCont == <<" ", "b">>
\* "Caused by: a": header shape, unrecognized severity token
LineBadLevel == <<"C", "a", "u", "s", "e", "d", " ", "b", "y", ":", " ", "a">>
\* "INFO a b": header shape, valid severity, no timestamp
LineNoTs == tINFO \o <<" ", "a", " ", "b">>
\* "WARN 2023-13-07 12:01:01,000 a b": header shape, month 13
LineBadDate == tWARN \o <<" ">> \o FormatTs(2023, 13, 7, 12, 1, 1, 0, " ") \o <<" ", "a", " ", "b">>

ScanLines == {LineInfoA, LineCont, LineBadLevel, LineNoTs, LineBadDate}

\* all sequences over S of length at most n
RECURSIVE SeqsUpTo(_, _)
SeqsUpTo(S, n) ==
    IF n = 0 THEN {<<>>}
    ELSE SeqsUpTo(S, n - 1) \cup
         {Append(s, x) : s \in {t \in SeqsUpTo(S, n - 1) : Len(t) = n - 1}, x \in S}

\* A log file: its physical lines, and how the reading of it goes.  It
\* cannot be opened ("missing"), it is read to its end ("ok"), or the
\* scanner fails after having delivered the first `delivered` lines
\* ("readerr": an I/O error, or a line longer than the scanner's buffer).
File(status, lines, delivered) ==
    [status |-> status, lines |-> lines, delivered |-> delivered]

OkFile(lines) == File("ok", lines, Len(lines))

MissingFile == File("missing", <<>>, 0)

\* the files of the single-scanner runs
ScanFiles ==
    {MissingFile} \cup
    {OkFile(ls) : ls \in SeqsUpTo(ScanLines, MaxLines)} \cup
    UNION {{File("readerr", ls, d) : d \in 0..Len(ls)} : ls \in SeqsUpTo(ScanLines, MaxLines)}

\* the files of the multi-source runs
PipeFiles ==
    { MissingFile,
      OkFile(<<LineInfoA, LineErrorB>>),
      File("readerr", <<LineErrorB, LineCont>>, 1) }

\* values of the -query flag: "", "a", "b", "a,b", "a,"
QueryInputs == {<<>>, <<"a">>, <<"b">>, <<"a", ",", "b">>, <<"a", ",">>}

PipeQueryInputs == {<<>>, <<"a">>, <<"a", ",">>}

\* the addresses of the selected sources, in topology order
Addresses == << <<"1", "0", ".", "0", ".", "0", ".", "2">>,
                <<"1", "0", ".", "0", ".", "0", ".", "1", "0">>,
                <<"h", "o", "s", "t", "A">>,
                <<"1", "0", ".", "0", ".", "0", ".", "3">> >>

Node(address, datacenter) == [Address |-> address, Datacenter |-> datacenter]

topLevelDir == "bundle"

\* filepath.Join(topLevelDir, "nodes", node.Address, "logs", "cassandra", "system.log")
LogFile(node) == <<topLevelDir, "nodes", node.Address, "logs", "cassandra", "system.log">>

(***************************************************************************)
(* ParseNodetoolStatus (main.go:183-218).                                  *)
(***************************************************************************)
\* strings.HasPrefix
HasPrefix(s, prefix) ==
    Len(s) >= Len(prefix) /\ SubSeq(s, 1, Len(prefix)) = prefix

\* the length of the longest prefix of s, from offset n on, without white space
RECURSIVE FieldRun(_, _)
FieldRun(s, n) ==
    IF n < Len(s) /\ s[n + 1] \notin SpaceChars THEN FieldRun(s, n + 1) ELSE n

\* strings.Fields: the maximal runs of characters that are not white space
RECURSIVE Fields(_)
Fields(s) ==
    IF s = <<>> THEN <<>>
    ELSE IF s[1] \in SpaceChars THEN Fields(From(s, 1))
    ELSE LET n == FieldRun(s, 0)
         IN  <<SubSeq(s, 1, n)>> \o Fields(From(s, n))

\* "Datacenter:"
tDatacenter == <<"D", "a", "t", "a", "c", "e", "n", "t", "e", "r", ":">>

\* UN, DN, UL, DL, UU, UJ, UM
StatusCodes == {<<"U", "N">>, <<"D", "N">>, <<"U", "L">>, <<"D", "L">>,
                <<"U", "U">>, <<"U", "J">>, <<"U", "M">>}

\* (mutation) only the rows of nodes that are up and normal are recognized
IsStatusRowUnOnly(line) == HasPrefix(line, <<"U", "N">>)

\* the second case of the switch (main.go:200)
IsStatusRow(line) == \E code \in StatusCodes : HasPrefix(line, code)

\* nodes, datacenter and foundNodeStatus after the loop has read n lines
RECURSIVE StatusLoop(_, _)
StatusLoop(lines, n) ==
    IF n = 0
    THEN [nodes |-> <<>>, datacenter |-> <<>>, foundNodeStatus |-> FALSE]
    ELSE LET st == StatusLoop(lines, n - 1)
             line == lines[n]
             fields == Fields(line)
         IN  IF HasPrefix(line, tDatacenter)
             THEN (IF Len(fields) > 1 THEN [st EXCEPT !.datacenter = fields[2]] ELSE st)
             ELSE IF IsStatusRow(line)
             THEN (IF Len(fields) > 1
                   THEN [st EXCEPT !.nodes = Append(@, Node(fields[2], st.datacenter)),
                                   !.foundNodeStatus = TRUE]
                   ELSE st)
             ELSE st

\* ParseNodetoolStatus(r): (nodes, err).  The reader r delivers the first
\* r.delivered lines of the report and then ends ("ok") or fails ("readerr").
ParseNodetoolStatus(r) ==
    LET st == StatusLoop(r.lines, r.delivered)
    IN  IF ~st.foundNodeStatus THEN [nodes |-> <<>>, err |-> "nonodes"]
        ELSE IF r.status = "readerr" THEN [nodes |-> <<>>, err |-> "read"]
        ELSE [nodes |-> st.nodes, err |-> "none"]

(***************************************************************************)
(* filterNodesByDatacenters and PrintDatacenters (main.go:316-344).        *)
(***************************************************************************)
\* (mutation) no node is filtered out
filterNodesKeepsAll(ns, dcNames) == ns

\* filterNodesByDatacenters: the nodes whose Datacenter is a key of dcSet
filterNodesByDatacenters(ns, dcNames) ==
    LET dcSet == {dcNames[k] : k \in DOMAIN dcNames}
        selected(node) == node.Datacenter \in dcSet
    IN  SelectSeq(ns, selected)

\* "Datacenters:"
tDatacenters == <<"D", "a", "t", "a", "c", "e", "n", "t", "e", "r", "s", ":">>

\* (mutation) one line is printed per node
PrintedPerNode(ns) == {[i \in DOMAIN ns |-> ns[i].Datacenter]}

\* PrintDatacenters: the sequences of lines that  for dc := range dcSet
\* can print after the heading.  The iteration order of a Go map is not
\* specified and differs from run to run: every order of the keys.
PrintedOrders(ns) ==
    LET dcSet == {ns[i].Datacenter : i \in DOMAIN ns}
        n == Cardinality(dcSet)
    IN  {o \in [1..n -> dcSet] : \A i, j \in 1..n : i # j => o[i] # o[j]}

(***************************************************************************)
(* Ordering: the four Less functions (main.go:71-93).                      *)
(***************************************************************************)
UpperChars == <<"A", "B", "C", "D", "E", "F", "G", "H", "I", "J", "K", "L", "M",
                "N", "O", "P", "Q", "R", "S", "T", "U", "V", "W", "X", "Y", "Z">>

LowerChars == <<"a", "b", "c", "d", "e", "f", "g", "h", "i", "j", "k", "l", "m",
                "n", "o", "p", "q", "r", "s", "t", "u", "v", "w", "x", "y", "z">>

\* the byte of a character of an address: '.', digits, letters (ASCII)
ByteOf(c) ==
    IF c = "." THEN 46
    ELSE IF c \in Digits THEN 48 + DigitVal(c)
    ELSE IF c \in Upper THEN 64 + (CHOOSE i \in 1..26 : UpperChars[i] = c)
    ELSE 96 + (CHOOSE i \in 1..26 : LowerChars[i] = c)

BytesOf(s) == [i \in DOMAIN s |-> ByteOf(s[i])]

\* bytes.Compare / strings.Compare: -1, 0 or +1 by the first byte that
\* differs, a proper prefix being the smaller
RECURSIVE Compare(_, _)
Compare(a, b) ==
    IF a = <<>> /\ b = <<>> THEN 0
    ELSE IF a = <<>> THEN -1
    ELSE IF b = <<>> THEN 1
    ELSE IF a[1] < b[1] THEN -1
    ELSE IF a[1] > b[1] THEN 1
    ELSE Compare(Tail(a), Tail(b))

\* the pieces of s between dots
RECURSIVE SplitDot(_)
SplitDot(s) ==
    LET i == Index(s, <<".">>)
    IN  IF i < 0 THEN <<s>>
        ELSE <<SubSeq(s, 1, i)>> \o SplitDot(From(s, i + 1))

\* one decimal field of a dotted IPv4 address: 1 to 3 digits, at most 255,
\* no leading zero
OctetOk(f) ==
    /\ Len(f) \in 1..3
    /\ \A i \in DOMAIN f : f[i] \in Digits
    /\ Len(f) > 1 => f[1] # "0"
    /\ Atoi(f, 1, Len(f)) <= 255

\* net.ParseIP on a string without ':' (the IPv6 forms are not modelled): nil
\* unless s is four decimal fields separated by dots.  The 16-byte result
\* has the same first 12 bytes for every IPv4 address, so only the last 4
\* bytes are kept.
ParseIP(s) ==
    LET parts == SplitDot(s)
    IN  IF Len(parts) = 4 /\ \A k \in 1..4 : OctetOk(parts[k])
        THEN [nil |-> FALSE, ip |-> [k \in 1..4 |-> Atoi(parts[k], 1, Len(parts[k]))]]
        ELSE [nil |-> TRUE, ip |-> <<>>]

\* the day and the second of the day of a parsed time, on scales that keep
\* the order of time.Time (all times are UTC: the layout has no zone)
DayOf(t) == (t.year * 12 + (t.month - 1)) * 31 + (t.day - 1)

SecondOf(t) == (t.hour * 60 + t.min) * 60 + t.sec

\* Time.Before: by the seconds, then by the fraction of the second
Before(t, u) ==
    \/ DayOf(t) < DayOf(u)
    \/ DayOf(t) = DayOf(u) /\ SecondOf(t) < SecondOf(u)
    \/ DayOf(t) = DayOf(u) /\ SecondOf(t) = SecondOf(u) /\ t.ms < u.ms

\* ByDate.Less
ByDateLess(x, y) == Before(x.Date, y.Date)

\* (mutation) severities are compared by their names: DEBUG, ERROR, INFO, WARN
ByLogLevelLessByName(x, y) ==
    LET rank == <<0, 2, 3, 1>>
    IN  rank[x.LogLevel + 1] < rank[y.LogLevel + 1]

\* ByLogLevel.Less
ByLogLevelLess(x, y) == x.LogLevel < y.LogLevel

\* ByLineNumber.Less
ByLineNumberLess(x, y) == x.LineNumber < y.LineNumber

\* (mutation) addresses are always compared as strings
ByNodeIPLessLexical(x, y) == Compare(BytesOf(x.NodeIP), BytesOf(y.NodeIP)) < 0

\* ByNodeIP.Less
ByNodeIPLess(x, y) ==
    LET ip1 == ParseIP(x.NodeIP)
        ip2 == ParseIP(y.NodeIP)
    IN  IF ip1.nil \/ ip2.nil
        THEN Compare(BytesOf(x.NodeIP), BytesOf(y.NodeIP)) < 0
        ELSE Compare(ip1.ip, ip2.ip) < 0

(***************************************************************************)
(* State of a run (main.go:149-175 and ProcessFile).                       *)
(***************************************************************************)
VARIABLES
    nodes,        \* filteredNodes
    fs,           \* the file system: address -> log file of that source
    queryInput,   \* the -query flag
    queries,      \* strings.Split(*query, ",")
    mainPc,       \* where main is: "launch", "collect", "sort" ("off": no run)
    next,         \* index of the next node of the launch loop
    wg,           \* counter of the WaitGroup
    chan,         \* buffer of logEntryChan: pointers <<worker, index>>
    closed,       \* whether logEntryChan is closed
    closerPc,     \* the closing goroutine: "idle", "wait", "close", "done"
    logEntries,   \* the collector's slice of pointers
    pc,           \* per worker: "idle", "open", "scan", "send", "sendLast", "ret", "done"
    scanned,      \* per worker: how many lines scanner.Scan() has delivered
    lineNumber,   \* per worker: loop variable of ProcessFile
    currentEntry, \* per worker: index into its heap, 0 is nil
    heap,         \* per worker: the LogEntry values it allocated
    ferr,         \* per worker: the error ProcessFile returns
    reported,     \* the workers whose error was logged, in log order
    crashed,      \* a goroutine panicked: the process is gone
    sent,         \* history: the pointers sent on the channel, in send order
    fnIn,         \* function-level runs: the arguments
    fnOut,        \* function-level runs: the result
    sortOption,   \* the -sort flag
    nodetoolFile, \* the -file flag
    nArg,         \* flag.NArg(): the number of positional arguments
    statusFile,   \* the file named by the -file flag and its reader
    datacenters,  \* the -datacenters flag
    listDCs,      \* the -list-dcs flag
    parsedNodes,  \* main's nodes: the result of ParseNodetoolStatus
    output        \* what has been printed on standard output

runVars == <<nodes, fs, queryInput, queries, mainPc, next, wg, chan, closed, closerPc,
             logEntries, pc, scanned, lineNumber, currentEntry, heap, ferr, reported, crashed,
             sent>>

vars == <<nodes, fs, queryInput, queries, mainPc, next, wg, chan, closed, closerPc,
          logEntries, pc, scanned, lineNumber, currentEntry, heap, ferr, reported, crashed,
          sent, fnIn, fnOut, sortOption, nodetoolFile, nArg, statusFile, datacenters,
          listDCs, parsedNodes, output>>

\* the flags of the command line, which no step changes, and the variables
\* of the first part of main (main.go:104-135) and of its printing, which
\* no step from the launch loop to the sort changes
flagVars == <<sortOption, nodetoolFile, nArg, statusFile, datacenters, listDCs, parsedNodes,
              output>>

N == Len(nodes)

Workers == 1..N

\* make(chan *LogEntry, len(filteredNodes))
Cap == Len(nodes)

FileOf(w) == fs[nodes[w].Address]

\* the entry a pointer refers to
Deref(p) == heap[p[1]][p[2]]

\* the variables of main and of its goroutines before the launch loop, for
\* the given sources, files and query flag
RunState(ns, files, q) ==
    /\ nodes = ns
    /\ fs = files
    /\ queryInput = q
    /\ queries = SplitComma(q)
    /\ next = 1
    /\ wg = 0
    /\ chan = <<>>
    /\ closed = FALSE
    /\ closerPc = "idle"
    /\ logEntries = <<>>
    /\ pc = [w \in 1..Len(ns) |-> "idle"]
    /\ scanned = [w \in 1..Len(ns) |-> 0]
    /\ lineNumber = [w \in 1..Len(ns) |-> 0]
    /\ currentEntry = [w \in 1..Len(ns) |-> 0]
    /\ heap = [w \in 1..Len(ns) |-> <<>>]
    /\ ferr = [w \in 1..Len(ns) |-> "none"]
    /\ reported = <<>>
    /\ crashed = FALSE
    /\ sent = <<>>

\* the default of the -sort flag
DefaultSort == "date"

\* the first part of main is not part of the run: nothing parsed, nothing
\* printed
FrontOff ==
    /\ nodetoolFile = <<>>
    /\ nArg = 0
    /\ statusFile = [status |-> "ok", lines |-> <<>>, delivered |-> 0]
    /\ datacenters = <<>>
    /\ listDCs = FALSE
    /\ parsedNodes = <<>>
    /\ output = <<>>

\* the state at main.go:149, the sort flag left at its default
RunInit(ns, files, q) ==
    /\ RunState(ns, files, q)
    /\ mainPc = "launch"
    /\ sortOption = DefaultSort
    /\ FrontOff

NodesOf(n) == [i \in 1..n |-> Node(Addresses[i], "DC1")]

\* multi-source runs
Init ==
    /\ \E n \in 0..MaxNodes :
         \E files \in [{Addresses[i] : i \in 1..n} -> PipeFiles] :
           \E q \in PipeQueryInputs : RunInit(NodesOf(n), files, q)
    /\ fnIn = [kind |-> "none"]
    /\ fnOut = [done |-> FALSE]

\* single-scanner runs: one source, every file of up to MaxLines lines
InitScan ==
    /\ \E f \in ScanFiles :
         \E q \in QueryInputs :
           RunInit(NodesOf(1), [a \in {Addresses[1]} |-> f], q)
    /\ fnIn = [kind |-> "none"]
    /\ fnOut = [done |-> FALSE]

(***************************************************************************)
(* main: launch loop, closing goroutine, collector (main.go:149-172).      *)
(***************************************************************************)
\* (mutation) a worker is started without wg.Add(1)
LaunchWithoutAdd ==
    /\ ~crashed
    /\ mainPc = "launch"
    /\ next <= N
    /\ pc' = [pc EXCEPT ![next] = "open"]
    /\ next' = next + 1
    /\ UNCHANGED <<nodes, fs, queryInput, queries, mainPc, wg, chan, closed, closerPc,
                   logEntries, scanned, lineNumber, currentEntry, heap, ferr, reported, crashed,
                   sent, fnIn, fnOut, flagVars>>

\* for _, node := range filteredNodes { wg.Add(1); go func(node Node) {...}(node) }
Launch ==
    /\ ~crashed
    /\ mainPc = "launch"
    /\ next <= N
    /\ wg' = wg + 1
    /\ pc' = [pc EXCEPT ![next] = "open"]
    /\ next' = next + 1
    /\ UNCHANGED <<nodes, fs, queryInput, queries, mainPc, chan, closed, closerPc,
                   logEntries, scanned, lineNumber, currentEntry, heap, ferr, reported, crashed,
                   sent, fnIn, fnOut, flagVars>>

\* go func() { wg.Wait(); close(logEntryChan) }()
StartCloser ==
    /\ ~crashed
    /\ mainPc = "launch"
    /\ next > N
    /\ closerPc' = "wait"
    /\ mainPc' = "collect"
    /\ UNCHANGED <<nodes, fs, queryInput, queries, next, wg, chan, closed,
                   logEntries, pc, scanned, lineNumber, currentEntry, heap, ferr, reported,
                   crashed, sent, fnIn, fnOut, flagVars>>

\* (mutation) a Wait that does not wait
WaitReturnsAtOnce == TRUE

\* wg.Wait() returns when the counter is zero
WaitReturns == wg = 0

WaitDone ==
    /\ ~crashed
    /\ closerPc = "wait"
    /\ WaitReturns
    /\ closerPc' = "close"
    /\ UNCHANGED <<nodes, fs, queryInput, queries, mainPc, next, wg, chan, closed,
                   logEntries, pc, scanned, lineNumber, currentEntry, heap, ferr, reported,
                   crashed, sent, fnIn, fnOut, flagVars>>

\* close(logEntryChan)
CloseChan ==
    /\ ~crashed
    /\ closerPc = "close"
    /\ closed' = TRUE
    /\ closerPc' = "done"
    /\ UNCHANGED <<nodes, fs, queryInput, queries, mainPc, next, wg, chan,
                   logEntries, pc, scanned, lineNumber, currentEntry, heap, ferr, reported,
                   crashed, sent, fnIn, fnOut, flagVars>>

\* logEntries = append(logEntries, entry)
Appended(entries, entry) == Append(entries, entry)

\* one iteration of  for entry := range logEntryChan
Collect ==
    /\ ~crashed
    /\ mainPc = "collect"
    /\ Len(chan) > 0
    /\ logEntries' = Appended(logEntries, Head(chan))
    /\ chan' = Tail(chan)
    /\ UNCHANGED <<nodes, fs, queryInput, queries, mainPc, next, wg, closed, closerPc,
                   pc, scanned, lineNumber, currentEntry, heap, ferr, reported, crashed, sent,
                   fnIn, fnOut, flagVars>>

\* (mutation) a range loop that ends on close although entries are buffered
RangeEndsOnClose == closed

\* the range loop ends when the channel is closed and drained
RangeEnds == closed /\ Len(chan) = 0

CollectEnd ==
    /\ ~crashed
    /\ mainPc = "collect"
    /\ RangeEnds
    /\ mainPc' = "sort"
    /\ UNCHANGED <<nodes, fs, queryInput, queries, next, wg, chan, closed, closerPc,
                   logEntries, pc, scanned, lineNumber, currentEntry, heap, ferr, reported,
                   crashed, sent, fnIn, fnOut, flagVars>>

(***************************************************************************)
(* The worker of one source: ProcessFile and its goroutine                 *)
(* (main.go:154-160, 242-277).                                             *)
(***************************************************************************)
\* scanner.Err() once scanner.Scan() has returned false
ScannerErr(w) == IF FileOf(w).status = "readerr" THEN "read" ELSE "none"

\* scanner.Text() of the line delivered last
CurrentLine(w) == FileOf(w).lines[scanned[w]]

\* scanner.Text() of the line the next scanner.Scan() delivers
NextLine(w) == FileOf(w).lines[scanned[w] + 1]

\* (mutation) a line that does not classify is kept as an entry of its own
HeapKeepsUnclassified(w, line) ==
    LET r == ProcessLine(line, lineNumber[w], LogFile(nodes[w]))
    IN  IF r.nil
        THEN [heap EXCEPT ![w] = Append(@, [NoEntry EXCEPT !.Message = line,
                                                            !.LineNumber = lineNumber[w]])]
        ELSE [heap EXCEPT ![w] = Append(@, r.entry)]

\* currentEntry, err = ProcessLine(line, lineNumber, logFile): the heap and
\* the pointer after the call
HeapAfterProcessLine(w, line) ==
    LET r == ProcessLine(line, lineNumber[w], LogFile(nodes[w]))
    IN  IF r.nil THEN heap ELSE [heap EXCEPT ![w] = Append(@, r.entry)]

\* (mutation) the pointer is left as it was when ProcessLine returns nil
CurrentKeptOnNil(w, line) ==
    IF ProcessLine(line, lineNumber[w], LogFile(nodes[w])).nil
    THEN currentEntry
    ELSE [currentEntry EXCEPT ![w] = Len(heap[w]) + 1]

CurrentAfterProcessLine(w, line) ==
    IF ProcessLine(line, lineNumber[w], LogFile(nodes[w])).nil
    THEN [currentEntry EXCEPT ![w] = 0]
    ELSE [currentEntry EXCEPT ![w] = Len(heap[w]) + 1]

\* (mutation) the line counter is not advanced
LineNotAdvanced(n) == n

\* lineNumber++ : the post statement of the loop, also run on continue
LineAfter(n) == n + 1

\* (mutation) every line that does not classify continues the pending entry
IsContinuationOrMalformed(line) == ProcessLine(line, 0, <<>>).nil

\* !startsWithLogLevel(line)
IsContinuation(line) == ~startsWithLogLevel(line)

\* currentEntry.Message += "\n" + line
Continued(message, line) == message \o <<"\n">> \o line

\* matchQuery(currentEntry, queries)
MatchCurrent(w) == matchQuery(heap[w][currentEntry[w]].Message, queries)

\* os.Open(logFile), bufio.NewScanner(file), lineNumber := 1
Open(w) ==
    /\ ~crashed
    /\ pc[w] = "open"
    /\ IF FileOf(w).status = "missing"
       THEN /\ ferr' = [ferr EXCEPT ![w] = "open"]
            /\ pc' = [pc EXCEPT ![w] = "ret"]
            /\ UNCHANGED lineNumber
       ELSE /\ lineNumber' = [lineNumber EXCEPT ![w] = 1]
            /\ pc' = [pc EXCEPT ![w] = "scan"]
            /\ UNCHANGED ferr
    /\ UNCHANGED <<nodes, fs, queryInput, queries, mainPc, next, wg, chan, closed,
                   closerPc, logEntries, scanned, currentEntry, heap, reported, crashed,
                   sent, fnIn, fnOut, flagVars>>

\* scanner.Scan() and the loop body up to the point where the worker either
\* goes on to the next line or has an entry to send (main.go:255-270), and
\* the test after the loop (main.go:273)
ScanLine(w) ==
    /\ ~crashed
    /\ pc[w] = "scan"
    /\ IF scanned[w] >= FileOf(w).delivered
       THEN \* Scan() returns false: end of input, or the read failed
            IF currentEntry[w] # 0 /\ MatchCurrent(w).panicked
            THEN /\ crashed' = TRUE
                 /\ UNCHANGED <<pc, scanned, lineNumber, currentEntry, heap, ferr>>
            ELSE IF currentEntry[w] # 0 /\ MatchCurrent(w).result
            THEN /\ pc' = [pc EXCEPT ![w] = "sendLast"]
                 /\ UNCHANGED <<scanned, lineNumber, currentEntry, heap, ferr, crashed>>
            ELSE /\ pc' = [pc EXCEPT ![w] = "ret"]
                 /\ ferr' = [ferr EXCEPT ![w] = ScannerErr(w)]
                 /\ UNCHANGED <<scanned, lineNumber, currentEntry, heap, crashed>>
       ELSE IF currentEntry[w] # 0 /\ IsContinuation(NextLine(w))
            THEN /\ scanned' = [scanned EXCEPT ![w] = @ + 1]
                 /\ heap' = [heap EXCEPT ![w][currentEntry[w]].Message =
                                Continued(@, NextLine(w))]
                 /\ lineNumber' = [lineNumber EXCEPT ![w] = LineAfter(@)]
                 /\ UNCHANGED <<pc, currentEntry, ferr, crashed>>
            ELSE IF currentEntry[w] # 0 /\ MatchCurrent(w).panicked
            THEN /\ crashed' = TRUE
                 /\ UNCHANGED <<pc, scanned, lineNumber, currentEntry, heap, ferr>>
            ELSE IF currentEntry[w] # 0 /\ MatchCurrent(w).result
            THEN /\ scanned' = [scanned EXCEPT ![w] = @ + 1]
                 /\ pc' = [pc EXCEPT ![w] = "send"]
                 /\ UNCHANGED <<lineNumber, currentEntry, heap, ferr, crashed>>
            ELSE /\ scanned' = [scanned EXCEPT ![w] = @ + 1]
                 /\ heap' = HeapAfterProcessLine(w, NextLine(w))
                 /\ currentEntry' = CurrentAfterProcessLine(w, NextLine(w))
                 /\ lineNumber' = [lineNumber EXCEPT ![w] = LineAfter(@)]
                 /\ UNCHANGED <<pc, ferr, crashed>>
    /\ UNCHANGED <<nodes, fs, queryInput, queries, mainPc, next, wg, chan, closed,
                   closerPc, logEntries, reported, sent, fnIn, fnOut, flagVars>>

\* a send on the buffered channel proceeds when the buffer has room
ChanHasRoom == Len(chan) < Cap

\* logEntryChan <- currentEntry inside the loop (main.go:264), then the
\* rest of the iteration (main.go:267-270).  A send on a closed channel
\* panics.
SendEntry(w) ==
    /\ ~crashed
    /\ pc[w] = "send"
    /\ IF closed
       THEN /\ crashed' = TRUE
            /\ UNCHANGED <<chan, sent, heap, currentEntry, lineNumber, pc>>
       ELSE /\ ChanHasRoom
            /\ chan' = Append(chan, <<w, currentEntry[w]>>)
            /\ sent' = Append(sent, <<w, currentEntry[w]>>)
            /\ heap' = HeapAfterProcessLine(w, CurrentLine(w))
            /\ currentEntry' = CurrentAfterProcessLine(w, CurrentLine(w))
            /\ lineNumber' = [lineNumber EXCEPT ![w] = LineAfter(@)]
            /\ pc' = [pc EXCEPT ![w] = "scan"]
            /\ UNCHANGED crashed
    /\ UNCHANGED <<nodes, fs, queryInput, queries, mainPc, next, wg, closed, closerPc,
                   logEntries, scanned, ferr, reported, fnIn, fnOut, flagVars>>

\* logEntryChan <- currentEntry after the loop (main.go:274), then
\* return scanner.Err()
SendLast(w) ==
    /\ ~crashed
    /\ pc[w] = "sendLast"
    /\ IF closed
       THEN /\ crashed' = TRUE
            /\ UNCHANGED <<chan, sent, ferr, pc>>
       ELSE /\ ChanHasRoom
            /\ chan' = Append(chan, <<w, currentEntry[w]>>)
            /\ sent' = Append(sent, <<w, currentEntry[w]>>)
            /\ ferr' = [ferr EXCEPT ![w] = ScannerErr(w)]
            /\ pc' = [pc EXCEPT ![w] = "ret"]
            /\ UNCHANGED crashed
    /\ UNCHANGED <<nodes, fs, queryInput, queries, mainPc, next, wg, closed, closerPc,
                   logEntries, scanned, lineNumber, currentEntry, heap, reported,
                   fnIn, fnOut, flagVars>>

\* (mutation) the error of ProcessFile is dropped
LoggedNever(log, w) == log

\* if err != nil { log.Printf(...) }
Logged(log, w) == IF ferr[w] # "none" THEN Append(log, w) ELSE log

\* ProcessFile has returned: the error is logged and the deferred wg.Done() runs
Return(w) ==
    /\ ~crashed
    /\ pc[w] = "ret"
    /\ reported' = Logged(reported, w)
    /\ wg' = wg - 1
    /\ pc' = [pc EXCEPT ![w] = "done"]
    /\ UNCHANGED <<nodes, fs, queryInput, queries, mainPc, next, chan, closed, closerPc,
                   logEntries, scanned, lineNumber, currentEntry, heap, ferr, crashed,
                   sent, fnIn, fnOut, flagVars>>

Worker(w) == Open(w) \/ ScanLine(w) \/ SendEntry(w) \/ SendLast(w) \/ Return(w)

Next ==
    \/ Launch
    \/ StartCloser
    \/ WaitDone
    \/ CloseChan
    \/ Collect
    \/ CollectEnd
    \/ \E w \in Workers : Open(w)
    \/ \E w \in Workers : ScanLine(w)
    \/ \E w \in Workers : SendEntry(w)
    \/ \E w \in Workers : SendLast(w)
    \/ \E w \in Workers : Return(w)

\* multi-source runs
Spec == Init /\ [][Next]_vars

\* multi-source runs in which the Go scheduler lets every goroutine that can
\* take a step eventually take one
FairSpec ==
    /\ Init
    /\ [][Next]_vars
    /\ WF_vars(Launch \/ StartCloser \/ Collect \/ CollectEnd)
    /\ WF_vars(WaitDone \/ CloseChan)
    /\ \A w \in 1..MaxNodes : WF_vars(w \in Workers /\ Worker(w))

\* single-scanner runs
SpecScan == InitScan /\ [][Next]_vars

(***************************************************************************)
(* main from the choice of the sort function to the sort                   *)
(* (main.go:137-147, 175).                                                 *)
(***************************************************************************)
\* (mutation) every name is taken to have a sort function
HasSortFunctionAlways(name) == TRUE

\* _, ok := sortFunctions[name]: the keys of the map
HasSortFunction(name) == name \in {"date", "loglevel", "linenumber", "nodeip"}

\* sortFunc, ok := sortFunctions[*sortOption]; if !ok { log.Fatalf(...) }
CheckSortOption ==
    /\ ~crashed
    /\ mainPc = "config"
    /\ mainPc' = IF HasSortFunction(sortOption) THEN "launch" ELSE "fatal"
    /\ UNCHANGED <<nodes, fs, queryInput, queries, next, wg, chan, closed, closerPc,
                   logEntries, pc, scanned, lineNumber, currentEntry, heap, ferr, reported,
                   crashed, sent, fnIn, fnOut, flagVars>>

\* Less(i, j) of the sort function of the given name, on the entries the
\* pointers p and q refer to
LessBy(name, p, q) ==
    CASE name = "date" -> ByDateLess(Deref(p), Deref(q))
      [] name = "loglevel" -> ByLogLevelLess(Deref(p), Deref(q))
      [] name = "linenumber" -> ByLineNumberLess(Deref(p), Deref(q))
      [] name = "nodeip" -> ByNodeIPLess(Deref(p), Deref(q))

\* Swap(i, j)
Swap(s, i, j) == [s EXCEPT ![i] = s[j], ![j] = s[i]]

\* the inner loop of the insertion sort:
\* for j := i; j > a && Less(j, j-1); j-- { Swap(j, j-1) }
RECURSIVE Sink(_, _, _)
Sink(name, s, j) ==
    IF j > 1 /\ LessBy(name, s[j], s[j - 1])
    THEN Sink(name, Swap(s, j, j - 1), j - 1)
    ELSE s

\* sort.Sort on a slice of fewer than 12 elements (and, in the older
\* library, no more than 6): a plain insertion sort from position i on
RECURSIVE InsertionSort(_, _, _)
InsertionSort(name, s, i) ==
    IF i > Len(s) THEN s ELSE InsertionSort(name, Sink(name, s, i), i + 1)

\* sortFunc(logEntries)
SortEntries ==
    /\ ~crashed
    /\ mainPc = "sort"
    /\ logEntries' = InsertionSort(sortOption, logEntries, 2)
    /\ mainPc' = "print"
    /\ UNCHANGED <<nodes, fs, queryInput, queries, next, wg, chan, closed, closerPc,
                   pc, scanned, lineNumber, currentEntry, heap, ferr, reported,
                   crashed, sent, fnIn, fnOut, flagVars>>

\* "WARN 2023-07-13 11:59:59,999 a"
LineWarnEarly == tWARN \o <<" ">> \o FormatTs(2023, 7, 13, 11, 59, 59, 999, " ") \o <<" ", "a">>
\* "DEBUG 2023-08-01 00:00:00,000 b"
LineDebugLate == tDEBUG \o <<" ">> \o FormatTs(2023, 8, 1, 0, 0, 0, 0, " ") \o <<" ", "b">>

\* the files of the sorted runs: entries whose order by date, by severity
\* and by line number differ
SortFiles ==
    { OkFile(<<LineInfoA, LineErrorB>>),
      OkFile(<<LineCont, LineWarnEarly, LineDebugLate>>) }

\* the state at main.go:144; the -sort flag is one of the four names, the
\* name as the README writes it, or the empty string
InitSort ==
    /\ \E n \in 0..MaxNodes :
         \E files \in [{Addresses[i] : i \in 1..n} -> SortFiles] :
           RunState(NodesOf(n), files, <<>>)
    /\ mainPc = "config"
    /\ sortOption \in {"date", "loglevel", "linenumber", "nodeip", "LogLevel", ""}
    /\ FrontOff
    /\ fnIn = [kind |-> "none"]
    /\ fnOut = [done |-> FALSE]

NextSort == CheckSortOption \/ Next \/ SortEntries

\* runs from the choice of the sort function to the sorted collection
SpecSort == InitSort /\ [][NextSort]_vars

(***************************************************************************)
(* main from the check of the flags to the printing (main.go:104-135,      *)
(* 177-179).                                                               *)
(***************************************************************************)
\* if *nodetoolFile == "" || (*datacenters == "" && !*listDCs) ||
\* flag.NArg() != 1 { flag.Usage(); os.Exit(1) }
CheckUsage ==
    /\ mainPc = "args"
    /\ mainPc' = IF nodetoolFile = <<>> \/ (datacenters = <<>> /\ ~listDCs) \/ nArg # 1
                 THEN "usage"
                 ELSE "parse"
    /\ UNCHANGED <<nodes, fs, queryInput, queries, next, wg, chan, closed, closerPc,
                   logEntries, pc, scanned, lineNumber, currentEntry, heap, ferr, reported,
                   crashed, sent, fnIn, fnOut, flagVars>>

\* if the file does not exist or cannot be opened { log.Fatal... };
\* nodes, err := ParseNodetoolStatus(file); if err != nil { log.Fatalf(...) };
\* if *listDCs { ... }
ParseStatus ==
    /\ mainPc = "parse"
    /\ LET r == ParseNodetoolStatus(statusFile)
       IN  IF statusFile.status = "missing" \/ r.err # "none"
           THEN mainPc' = "fatal" /\ UNCHANGED parsedNodes
           ELSE /\ parsedNodes' = r.nodes
                /\ mainPc' = IF listDCs THEN "list" ELSE "filter"
    /\ UNCHANGED <<nodes, fs, queryInput, queries, next, wg, chan, closed, closerPc,
                   logEntries, pc, scanned, lineNumber, currentEntry, heap, ferr, reported,
                   crashed, sent, fnIn, fnOut, sortOption, nodetoolFile, nArg, statusFile,
                   datacenters, listDCs,
                   output>>

\* PrintDatacenters(nodes); return
ListDatacenters ==
    /\ mainPc = "list"
    /\ \E o \in PrintedOrders(parsedNodes) : output' = <<tDatacenters>> \o o
    /\ mainPc' = "exit"
    /\ UNCHANGED <<nodes, fs, queryInput, queries, next, wg, chan, closed, closerPc,
                   logEntries, pc, scanned, lineNumber, currentEntry, heap, ferr, reported,
                   crashed, sent, fnIn, fnOut, sortOption, nodetoolFile, nArg, statusFile,
                   datacenters, listDCs,
                   parsedNodes>>

\* dcNames := strings.Split(*datacenters, ",");
\* filteredNodes := filterNodesByDatacenters(nodes, dcNames)
FilterNodes ==
    /\ mainPc = "filter"
    /\ LET filteredNodes == filterNodesByDatacenters(parsedNodes, SplitComma(datacenters))
       IN  /\ nodes' = filteredNodes
           /\ pc' = [w \in DOMAIN filteredNodes |-> "idle"]
           /\ scanned' = [w \in DOMAIN filteredNodes |-> 0]
           /\ lineNumber' = [w \in DOMAIN filteredNodes |-> 0]
           /\ currentEntry' = [w \in DOMAIN filteredNodes |-> 0]
           /\ heap' = [w \in DOMAIN filteredNodes |-> <<>>]
           /\ ferr' = [w \in DOMAIN filteredNodes |-> "none"]
    /\ mainPc' = "config"
    /\ UNCHANGED <<fs, queryInput, queries, next, wg, chan, closed, closerPc,
                   logEntries, reported, crashed, sent, fnIn, fnOut, flagVars>>

\* for _, entry := range logEntries { fmt.Printf(...) }
PrintEntries ==
    /\ ~crashed
    /\ mainPc = "print"
    /\ output' = [i \in DOMAIN logEntries |-> Deref(logEntries[i])]
    /\ mainPc' = "exit"
    /\ UNCHANGED <<nodes, fs, queryInput, queries, next, wg, chan, closed, closerPc,
                   logEntries, pc, scanned, lineNumber, currentEntry, heap, ferr, reported,
                   crashed, sent, fnIn, fnOut, sortOption, nodetoolFile, nArg, statusFile,
                   datacenters, listDCs,
                   parsedNodes>>

(***************************************************************************)
(* Function-level runs: matchQuery and ProcessLine applied to inputs drawn *)
(* from bounded sets.                                                      *)
(***************************************************************************)
\* no run of main
NoRun ==
    /\ nodes = <<>>
    /\ fs = <<>>
    /\ queryInput = <<>>
    /\ queries = <<>>
    /\ mainPc = "off"
    /\ next = 1
    /\ wg = 0
    /\ chan = <<>>
    /\ closed = FALSE
    /\ closerPc = "idle"
    /\ logEntries = <<>>
    /\ pc = <<>>
    /\ scanned = <<>>
    /\ lineNumber = <<>>
    /\ currentEntry = <<>>
    /\ heap = <<>>
    /\ ferr = <<>>
    /\ reported = <<>>
    /\ crashed = FALSE
    /\ sent = <<>>
    /\ sortOption = DefaultSort
    /\ FrontOff

\* "xaybz" and "xbya"
TextXaybz == <<"x", "a", "y", "b", "z">>
TextXbya == <<"x", "b", "y", "a">>

MatchTexts == SeqsUpTo({"a", "b", "x"}, MaxText) \cup {TextXaybz, TextXbya}

\* "", "a", "b", "ab", "ba"
MatchTerms == {<<>>, <<"a">>, <<"b">>, <<"a", "b">>, <<"b", "a">>}

MatchChains == SeqsUpTo(MatchTerms, MaxTerms)

InitMatch ==
    /\ NoRun
    /\ \E t \in MatchTexts :
         \E qs \in MatchChains : fnIn = [kind |-> "match", text |-> t, queries |-> qs]
    /\ fnOut = [done |-> FALSE]

\* matchQuery(&LogEntry{Message: text}, queries)
ApplyMatchQuery ==
    /\ fnIn.kind = "match"
    /\ ~fnOut.done
    /\ fnOut' = [done |-> TRUE, value |-> matchQuery(fnIn.text, fnIn.queries)]
    /\ UNCHANGED <<runVars, fnIn, flagVars>>

NextMatch == ApplyMatchQuery

SpecMatch == InitMatch /\ [][NextMatch]_vars

\* "info": the severity in lower case
tInfoLower == <<"i", "n", "f", "o">>

LineTokens == {tDEBUG, tINFO, tWARN, tERROR, tInfoLower}

\* what stands between the severity token and the timestamp: " ", " [x] "
LinePres == {<<" ">>, <<" ", "[", "x", "]", " ">>}

\* what follows the timestamp: nothing, " x", or a second, valid timestamp
LineTails == {<<>>, <<" ", "x">>, <<" ">> \o FormatTs(2023, 7, 5, 13, 3, 37, 128, " ")}

\* a line as a logger writes it, from its parts
BuiltLine(token, pre, year, month, day, hour, min, sec, ms, sep, tail) ==
    [kind |-> "line", token |-> token, pre |-> pre, year |-> year, month |-> month,
     day |-> day, hour |-> hour, min |-> min, sec |-> sec, ms |-> ms, sep |-> sep,
     line |-> token \o pre \o FormatTs(year, month, day, hour, min, sec, ms, sep) \o tail]

LineInputs ==
    {BuiltLine(token, pre, year, month, day, hour, min, sec, ms, sep, tail) :
        token \in LineTokens, pre \in LinePres, year \in {2023, 2024},
        month \in {0, 2, 4, 12, 13}, day \in {0, 1, 29, 30, 31, 32}, hour \in {23, 24},
        min \in {59, 60}, sec \in {0, 60}, ms \in {0, 128}, sep \in {" ", "\t"},
        tail \in LineTails}

InitLine ==
    /\ NoRun
    /\ fnIn \in LineInputs
    /\ fnOut = [done |-> FALSE]

\* ProcessLine(line, 1, "testFilePath")
ApplyProcessLine ==
    /\ fnIn.kind = "line"
    /\ ~fnOut.done
    /\ fnOut' = [done |-> TRUE, value |-> ProcessLine(fnIn.line, 1, <<"testFilePath">>)]
    /\ UNCHANGED <<runVars, fnIn, flagVars>>

NextLineFn == ApplyProcessLine

SpecLine == InitLine /\ [][NextLineFn]_vars

\* lines of a status report:
\* "Datacenter: DC1", "Datacenter: DC2", "Datacenter:" (no name)
RDc1 == tDatacenter \o <<" ", "D", "C", "1">>
RDc2 == tDatacenter \o <<" ", "D", "C", "2">>
RDcNoName == tDatacenter
\* "UN 10.0.0.2", "DN  10.0.0.10 x", "UJ hostA"
RUn2 == <<"U", "N", " ">> \o Addresses[1]
RDn10 == <<"D", "N", " ", " ">> \o Addresses[2] \o <<" ", "x">>
RUjHost == <<"U", "J", "\t">> \o Addresses[3]
\* "UN": a status row without address field
RUnBare == <<"U", "N">>
\* "-- Address": a line of the table header
RHeader == <<"-", "-", " ", "A", "d", "d", "r", "e", "s", "s">>

StatusLines == {RDc1, RDc2, RDcNoName, RUn2, RDn10, RUjHost, RUnBare, RHeader}

\* the readers given to ParseNodetoolStatus: every report of up to
\* MaxReport lines, read to its end or failing after any number of lines
StatusReports ==
    {OkFile(ls) : ls \in SeqsUpTo(StatusLines, MaxReport)} \cup
    UNION {{File("readerr", ls, d) : d \in 0..Len(ls)} : ls \in SeqsUpTo(StatusLines, MaxReport)}

InitStatus ==
    /\ NoRun
    /\ \E r \in StatusReports : fnIn = [kind |-> "status", report |-> r]
    /\ fnOut = [done |-> FALSE]

\* ParseNodetoolStatus(r)
ApplyParseNodetoolStatus ==
    /\ fnIn.kind = "status"
    /\ ~fnOut.done
    /\ fnOut' = [done |-> TRUE, value |-> ParseNodetoolStatus(fnIn.report)]
    /\ UNCHANGED <<runVars, fnIn, flagVars>>

NextStatus == ApplyParseNodetoolStatus

SpecStatus == InitStatus /\ [][NextStatus]_vars

\* the decimal digits of n, without padding
RECURSIVE Dec(_)
Dec(n) == IF n < 10 THEN <<DigitChars[n + 1]>> ELSE Dec(n \div 10) \o <<DigitChars[(n % 10) + 1]>>

\* an IPv4 address, from its four octets
BuiltIP(o) ==
    [kind |-> "ip", octets |-> o,
     text |-> Dec(o[1]) \o <<".">> \o Dec(o[2]) \o <<".">> \o Dec(o[3]) \o <<".">> \o Dec(o[4])]

\* an address that is not an IP address
BuiltName(text) == [kind |-> "name", octets |-> <<>>, text |-> text]

\* 10.0.0.2, 10.0.0.3, 10.0.0.10, 192.168.1.3, 192.168.1.5, 192.168.1.10,
\* hostA, hostB, 10.0.0.256 (malformed) and the empty string
AddressInputs ==
    {BuiltIP(<<10, 0, 0, 2>>), BuiltIP(<<10, 0, 0, 3>>), BuiltIP(<<10, 0, 0, 10>>),
     BuiltIP(<<192, 168, 1, 3>>), BuiltIP(<<192, 168, 1, 5>>), BuiltIP(<<192, 168, 1, 10>>),
     BuiltName(<<"h", "o", "s", "t", "A">>), BuiltName(<<"h", "o", "s", "t", "B">>),
     BuiltName(<<"1", "0", ".", "0", ".", "0", ".", "2", "5", "6">>), BuiltName(<<>>)}

InitLess ==
    /\ NoRun
    /\ \E a, b, c \in AddressInputs : fnIn = [kind |-> "less", a |-> a, b |-> b, c |-> c]
    /\ fnOut = [done |-> FALSE]

\* &LogEntry{NodeIP: address}
EntryOf(address) == [NoEntry EXCEPT !.NodeIP = address]

\* ByNodeIP{entries}.Less(i, j) on the pairs of three entries
ApplyByNodeIPLess ==
    /\ fnIn.kind = "less"
    /\ ~fnOut.done
    /\ fnOut' = [done |-> TRUE,
                 aa |-> ByNodeIPLess(EntryOf(fnIn.a.text), EntryOf(fnIn.a.text)),
                 ab |-> ByNodeIPLess(EntryOf(fnIn.a.text), EntryOf(fnIn.b.text)),
                 bc |-> ByNodeIPLess(EntryOf(fnIn.b.text), EntryOf(fnIn.c.text)),
                 ac |-> ByNodeIPLess(EntryOf(fnIn.a.text), EntryOf(fnIn.c.text))]
    /\ UNCHANGED <<runVars, fnIn, flagVars>>

NextLess == ApplyByNodeIPLess

SpecLess == InitLess /\ [][NextLess]_vars

(***************************************************************************)
(* Whole runs of main: inputs and specification.                           *)
(***************************************************************************)
\* "UN 10.0.0.3"
RUn3 == <<"U", "N", " ">> \o Addresses[4]

\* the status files of the whole runs: two nodes in two groups; five nodes
\* in the groups DC1, DC2, DC1, DC3, DC2, one address twice; a node before
\* any group; no status row; a reader that fails
MainReports ==
    { OkFile(<<RDc1, RUn2, RDc2, RDn10>>),
      OkFile(<<RHeader, RDc1, RUn2, RDc2, RDn10, RDc1, RUjHost,
               tDatacenter \o <<" ", "D", "C", "3">>, RUn3, RDc2, RUn2>>),
      OkFile(<<RUn3, RDc1, RUjHost>>),
      OkFile(<<RHeader>>),
      File("readerr", <<RDc1, RUn2>>, 2),
      MissingFile }

\* numbers of positional arguments
MaxArgs == 2

\* the state at main.go:104; the -file flag is "" or "status", the
\* -datacenters flag "DC1", "DC3", "DC2,DC9" or ""; every address of the
\* bundle has its log file, but the third
InitMain ==
    /\ RunState(<<>>,
                (Addresses[1] :> OkFile(<<LineInfoA, LineErrorB>>)) @@
                (Addresses[2] :> OkFile(<<LineErrorB, LineCont>>)) @@
                (Addresses[3] :> MissingFile) @@
                (Addresses[4] :> OkFile(<<LineWarnEarly>>)),
                <<>>)
    /\ mainPc = "args"
    /\ sortOption \in {"date", "loglevel", "LogLevel"}
    /\ nodetoolFile \in { <<>>, <<"s", "t", "a", "t", "u", "s">> }
    /\ nArg \in 0..MaxArgs
    /\ statusFile \in MainReports
    /\ datacenters \in { <<"D", "C", "1">>, <<"D", "C", "3">>,
                          <<"D", "C", "2", ",", "D", "C", "9">>, <<>> }
    /\ listDCs \in BOOLEAN
    /\ parsedNodes = <<>>
    /\ output = <<>>
    /\ fnIn = [kind |-> "none"]
    /\ fnOut = [done |-> FALSE]

NextMain ==
    \/ CheckUsage
    \/ ParseStatus
    \/ ListDatacenters
    \/ FilterNodes
    \/ NextSort
    \/ PrintEntries

\* whole runs of main
SpecMain == InitMain /\ [][NextMain]_vars

(***************************************************************************)
(* Reference definitions for the properties: what a file should yield,     *)
(* stated from the file and not from the scanner's loop.                   *)
(***************************************************************************)
\* the elements of a sequence, as a bag
SeqBag(s) ==
    [x \in {s[i] : i \in DOMAIN s} |-> Cardinality({i \in DOMAIN s : s[i] = x})]

\* the pointers of worker w among ps, in order
OfWorker(ps, w) == LET mine(p) == p[1] = w IN SelectSeq(ps, mine)

\* the entries a sequence of pointers refers to
Entries(ps) == [i \in DOMAIN ps |-> Deref(ps[i])]

\* lines[k] is a line that starts an entry
ValidHeader(line) ==
    /\ startsWithLogLevel(line)
    /\ ~ParseLogLevel(LeadingToken(line)).err
    /\ HasTs(line)
    /\ ~ParseDate(FirstTs(line)).err

\* the last line of the run of consecutive non-header lines that follows
\* line k, among the first n lines
RunEnd(lines, k, n) ==
    CHOOSE j \in k..n :
        /\ \A i \in (k + 1)..j : ~startsWithLogLevel(lines[i])
        /\ j = n \/ startsWithLogLevel(lines[j + 1])

\* lines k..j joined by line breaks
RECURSIVE JoinLines(_, _, _)
JoinLines(lines, k, j) ==
    IF j <= k THEN lines[k]
    ELSE JoinLines(lines, k, j - 1) \o <<"\n">> \o lines[j]

\* the entry that starts at line k of the file of node, when the scanner
\* delivers the first n lines
EntryAt(node, lines, k, n) ==
    [LogLevel |-> ParseLogLevel(LeadingToken(lines[k])).level,
     Date |-> ParseDate(FirstTs(lines[k])).date,
     LineNumber |-> k,
     NodeIP |-> <<>>,
     FilePath |-> LogFile(node),
     Message |-> JoinLines(lines, k, RunEnd(lines, k, n))]

\* the bag of entries the source w contributes: one per valid header among
\* the delivered lines whose text passes the query chain
Contribution(w) ==
    LET f == FileOf(w)
        starts == {k \in 1..f.delivered :
                     /\ ValidHeader(f.lines[k])
                     /\ matchQuery(EntryAt(nodes[w], f.lines, k, f.delivered).Message,
                                   queries).result}
    IN  SeqBag([k \in starts |-> EntryAt(nodes[w], f.lines, k, f.delivered)])

(***************************************************************************)
(* Properties of the aggregation (multi-source runs, Spec).                *)
(***************************************************************************)
\* C1: when the collector's loop over the channel has ended, the collected
\* pointers are, as a multiset, exactly the pointers the workers sent: none
\* is lost and none appears twice.
C1_CollectedIsWhatWasSent ==
    mainPc = "sort" => SeqBag(logEntries) = SeqBag(sent)

\* C1 witness: the loop has ended in a run where two workers sent entries,
\* a third of the entries came late, and one worker failed.
C1_Witness ==
    /\ mainPc = "sort"
    /\ Len(sent) >= 3
    /\ \E v, w \in Workers : /\ v # w
                             /\ OfWorker(sent, v) # <<>>
                             /\ OfWorker(sent, w) # <<>>
                             /\ ferr[w] # "none"

\* C2: the sort step is reached only after the channel is closed, and the
\* channel is closed only after every launched worker has run wg.Done: no
\* worker is scanning or blocked on a send once the channel is closed or
\* the sort has started.
C2_SortAfterCloseAfterJoin ==
    /\ mainPc = "sort" => closed
    /\ closerPc \in {"close", "done"} => wg = 0 /\ next > N
    /\ closed => \A w \in Workers : pc[w] = "done"

\* C2 witness: the sort step is reached after two workers delivered entries.
C2_Witness ==
    /\ mainPc = "sort"
    /\ closed
    /\ N >= 2
    /\ Len(logEntries) >= 2

\* some goroutine can take a step: ENABLED Next, one group of actions at a
\* time
CanStep ==
    \/ ENABLED (Launch \/ StartCloser \/ Collect \/ CollectEnd)
    \/ ENABLED (WaitDone \/ CloseChan)
    \/ ENABLED (\E w \in Workers : Open(w) \/ Return(w))
    \/ ENABLED (\E w \in Workers : SendEntry(w) \/ SendLast(w))
    \/ ENABLED (\E w \in Workers : ScanLine(w))

\* C3 (as claimed): the run never stops short of the sort step: in every
\* state either the sort step is reached or some goroutine can take a step.
C3_RunReachesSort == mainPc = "sort" \/ CanStep

\* C4: a worker whose file cannot be opened sends nothing, has its error
\* logged and signals completion; when the run reaches the sort step the
\* collection holds, for every other source, exactly the entries of that
\* source; and the failure blocks nobody: as long as no goroutine has
\* panicked, a run with a missing file is never stuck before the sort step.
C4_MissingFileIsIsolated ==
    \A w \in Workers :
        FileOf(w).status = "missing" =>
            /\ OfWorker(sent, w) = <<>>
            /\ pc[w] = "done" => ferr[w] = "open" /\ (\E i \in DOMAIN reported : reported[i] = w)
            /\ mainPc = "sort" =>
                 /\ pc[w] = "done"
                 /\ \A v \in Workers \ {w} :
                      SeqBag(Entries(OfWorker(logEntries, v))) = Contribution(v)
            /\ ~crashed => (mainPc = "sort" \/ CanStep)

\* C4 witness: the sort step is reached with one file missing and entries
\* of a sibling collected.
C4_Witness ==
    /\ mainPc = "sort"
    /\ \E v, w \in Workers : /\ FileOf(w).status = "missing"
                             /\ v # w
                             /\ OfWorker(logEntries, v) # <<>>

\* C5 (as claimed): every collected entry carries the address of the source
\* whose file it was read from.
C5_EntriesCarrySourceAddress ==
    \A i \in DOMAIN logEntries :
        Deref(logEntries[i]).NodeIP = nodes[logEntries[i][1]].Address

\* Unless a goroutine panics, the channel protocol always makes progress
\* to the sort step (checked under FairSpec).
ProtocolProgress == <>(mainPc = "sort" \/ crashed)

(***************************************************************************)
(* Properties of the scanner (single-scanner runs, SpecScan).              *)
(***************************************************************************)
\* C6 (as claimed): every entry sent has as line number the number of a
\* valid header line of the file and as text that line followed by every
\* immediately following consecutive non-header line of the file, joined
\* by line breaks.
C6_TextIsHeaderPlusContinuations ==
    \A i \in DOMAIN sent :
        LET e == Deref(sent[i])
            lines == FileOf(sent[i][1]).lines
        IN  /\ e.LineNumber \in 1..Len(lines)
            /\ ValidHeader(lines[e.LineNumber])
            /\ e.Message =
                 JoinLines(lines, e.LineNumber, RunEnd(lines, e.LineNumber, Len(lines)))

\* For the files that are read to their end the statement of C6 holds.
C6_HoldsForFilesReadToEnd ==
    (\A w \in Workers : FileOf(w).status = "ok") => C6_TextIsHeaderPlusContinuations

\* a line of header shape that does not classify
Malformed(line) == startsWithLogLevel(line) /\ ~ValidHeader(line)

\* the physical lines of a text: its pieces between line breaks
RECURSIVE Pieces(_)
Pieces(text) ==
    LET i == Index(text, <<"\n">>)
    IN  IF i < 0 THEN <<text>>
        ELSE <<SubSeq(text, 1, i)>> \o Pieces(From(text, i + 1))

\* C7: a delivered line of header shape with an unrecognized severity, no
\* timestamp or a calendar-invalid timestamp starts no entry and is part of
\* no entry sent, and the entry pending before it is sent with exactly the
\* lines accumulated before it.
C7_MalformedHeaderIsDiscarded ==
    \A i \in DOMAIN sent :
        LET e == Deref(sent[i])
            f == FileOf(sent[i][1])
            k == e.LineNumber
        IN  \A m \in 1..f.delivered :
                Malformed(f.lines[m]) =>
                    /\ k # m
                    /\ \A j \in DOMAIN Pieces(e.Message) : Pieces(e.Message)[j] # f.lines[m]
                    /\ (k < m /\ \A j \in (k + 1)..(m - 1) : ~startsWithLogLevel(f.lines[j]))
                         => e.Message = JoinLines(f.lines, k, m - 1)

\* C7 witness: an entry with one continuation line was pending when a line
\* with a calendar-invalid timestamp came, and has been sent.
C7_Witness ==
    \E i \in DOMAIN sent :
        LET e == Deref(sent[i])
            f == FileOf(sent[i][1])
        IN  /\ e.LineNumber = 1
            /\ f.delivered >= 3
            /\ f.lines[2] = LineCont
            /\ f.lines[3] = LineBadDate
            /\ e.Message = LineInfoA \o <<"\n">> \o LineCont

\* C9: matchQuery with an empty term list is true of every entry, and a run
\* whose -query flag is the empty string does not fail and sends every
\* entry that was classified successfully: one per valid header line
\* delivered.
C9_EmptyQueryMatchesAll ==
    /\ \A w \in Workers : \A i \in DOMAIN heap[w] :
          matchQuery(heap[w][i].Message, <<>>) = [panicked |-> FALSE, result |-> TRUE]
    /\ queryInput = <<>> =>
          /\ ~crashed
          /\ \A w \in Workers :
                pc[w] \in {"ret", "done"} =>
                    /\ {OfWorker(sent, w)[i][2] : i \in DOMAIN OfWorker(sent, w)}
                         = DOMAIN heap[w]
                    /\ {heap[w][i].LineNumber : i \in DOMAIN heap[w]}
                         = {k \in 1..FileOf(w).delivered : ValidHeader(FileOf(w).lines[k])}

\* C9 witness: a run with the empty query flag has reached the sort step
\* with two entries collected.
C9_Witness ==
    /\ queryInput = <<>>
    /\ mainPc = "sort"
    /\ Len(logEntries) >= 2

(***************************************************************************)
(* Properties of matchQuery (SpecMatch).                                   *)
(***************************************************************************)
\* the terms occur in the text at increasing, non-overlapping places
OccurInOrder(text, terms) ==
    \E at \in [DOMAIN terms -> 0..Len(text)] :
        \A k \in DOMAIN terms :
            /\ OccursAt(text, terms[k], at[k])
            /\ k > 1 => at[k] >= at[k - 1] + Len(terms[k - 1])

MonthDays == <<31, 28, 31, 30, 31, 30, 31, 31, 30, 31, 30, 31>>

\* the leap years among the years of the inputs
LeapYears == {2024}

\* whether the fields a line was built from are a date-time of the calendar
CalendarValid(in) ==
    /\ in.month \in 1..12
    /\ in.day >= 1
    /\ in.day <= MonthDays[in.month]
                   + (IF in.month = 2 /\ in.year \in LeapYears THEN 1 ELSE 0)
    /\ in.hour <= 23
    /\ in.min <= 59
    /\ in.sec <= 59

SeverityOf(token) ==
    CASE token = tDEBUG -> 0
      [] token = tINFO -> 1
      [] token = tWARN -> 2
      [] token = tERROR -> 3

\* the lines C10 is about: one of the four severities, whitespace, and a
\* substring of the shape dddd-dd-dd dd:dd:dd,ddd
C10_Case ==
    /\ fnOut.done
    /\ fnIn.kind = "line"
    /\ fnIn.token \in {tDEBUG, tINFO, tWARN, tERROR}
    /\ fnIn.sep = " "

C11_EntriesAreWellFormed ==
    /\ \A i \in DOMAIN logEntries : logEntries[i][2] \in DOMAIN heap[logEntries[i][1]]
    /\ \A w \in Workers : \A i \in DOMAIN heap[w] :
          LET e == heap[w][i]
              lines == FileOf(w).lines
              k == e.LineNumber
          IN  /\ e.Message # <<>>
              /\ e.LogLevel \in {DEBUG, INFO, WARN, ERROR}
              /\ k \in 1..FileOf(w).delivered
              /\ LeadingToken(lines[k]) \in {tDEBUG, tINFO, tWARN, tERROR}
              /\ e.LogLevel = SeverityOf(LeadingToken(lines[k]))
              /\ HasTs(lines[k])
              /\ CalendarValid(e.Date)
              /\ FormatTs(e.Date.year, e.Date.month, e.Date.day, e.Date.hour,
                          e.Date.min, e.Date.sec, e.Date.ms, " ") = FirstTs(lines[k])

\* C11 witness: the collection holds the one entry of a file whose other
\* lines are a header with month 13 and a header without timestamp.
C11_Witness ==
    /\ mainPc = "sort"
    /\ Len(logEntries) = 1
    /\ FileOf(1).lines = <<LineBadDate, LineInfoA, LineNoTs>>
    /\ Deref(logEntries[1]).LineNumber = 2

\* the text of the entry that starts at line k of a file: the line and all
\* the non-header lines that follow it in the file
CompleteText(lines, k) == JoinLines(lines, k, RunEnd(lines, k, Len(lines)))

\* C12 (as claimed): when a scanner has returned, the entries it sent are
\* exactly the entries of the file whose complete text, header line and all
\* continuation lines, passes the query chain.
C12_EmittedIffCompleteTextPasses ==
    \A w \in Workers :
        pc[w] \in {"ret", "done"} =>
            {Deref(OfWorker(sent, w)[i]).LineNumber : i \in DOMAIN OfWorker(sent, w)}
              = {k \in DOMAIN FileOf(w).lines :
                    /\ ValidHeader(FileOf(w).lines[k])
                    /\ matchQuery(CompleteText(FileOf(w).lines, k), queries).result}

\* For the files that are read to their end the statement of C12 holds.
C12_HoldsForFilesReadToEnd ==
    (\A w \in Workers : FileOf(w).status = "ok") => C12_EmittedIffCompleteTextPasses

\* C13: an entry that has been sent on the channel is never modified
\* afterwards: no step changes the value a sent pointer refers to.
C13_SentEntriesNeverChange ==
    [][\A i \in DOMAIN sent : heap'[sent[i][1]][sent[i][2]] = Deref(sent[i])]_vars

\* C13 witness: after the hand-off of its first entry a worker has appended
\* a continuation line to its second entry; the first is as it was sent.
C13_Witness ==
    \E i \in DOMAIN sent :
        LET w == sent[i][1]
        IN  /\ sent[i][2] = 1
            /\ Deref(sent[i]).Message = LineInfoA
            /\ Len(heap[w]) >= 2
            /\ heap[w][2].Message = LineInfoA \o <<"\n">> \o LineCont

(***************************************************************************)
(* Further properties of the aggregation (multi-source runs, Spec).        *)
(***************************************************************************)
\* C16 (as claimed): at the sort step the collection holds no entry of a
\* source whose scanner returned an error, and exactly the entries of every
\* source whose scanner returned none.
C16_FailedSourceContributesNothing ==
    mainPc = "sort" =>
        \A w \in Workers :
            IF ferr[w] # "none"
            THEN OfWorker(logEntries, w) = <<>>
            ELSE SeqBag(Entries(OfWorker(logEntries, w))) = Contribution(w)

(***************************************************************************)
(* Properties of ParseNodetoolStatus (SpecStatus).                         *)
(***************************************************************************)
\* the lines of a report that begin with a status code
Rows(lines) ==
    {i \in DOMAIN lines : \E code \in StatusCodes : HasPrefix(lines[i], code)}

\* the k-th status row of a report
RowAt(lines, k) ==
    CHOOSE i \in Rows(lines) : Cardinality({j \in Rows(lines) : j <= i}) = k

\* the group a row at line i belongs to: the name on the nearest preceding
\* "Datacenter:" line that has a name field, the empty string if none
GroupAt(lines, i) ==
    LET named == {j \in 1..(i - 1) :
                     HasPrefix(lines[j], tDatacenter) /\ Len(Fields(lines[j])) >= 2}
    IN  IF named = {} THEN <<>>
        ELSE Fields(lines[CHOOSE j \in named : \A m \in named : m <= j])[2]

\* the reports C14 is about: read to the end, every status row with an
\* address field
C14_Case ==
    /\ fnOut.done
    /\ fnIn.kind = "status"
    /\ fnIn.report.status = "ok"
    /\ \A i \in Rows(fnIn.report.lines) : Len(Fields(fnIn.report.lines[i])) >= 2

\* C14: on such a report ParseNodetoolStatus returns one Source per status
\* row, in the order of the rows and without deduplication, with the
\* second field of the row as address and the group of the row; a report
\* without status row gives the error and no Sources.
C14_OneSourcePerStatusRow ==
    C14_Case =>
        LET lines == fnIn.report.lines
            out == fnOut.value
        IN  IF Rows(lines) = {}
            THEN out.err = "nonodes" /\ out.nodes = <<>>
            ELSE /\ out.err = "none"
                 /\ Len(out.nodes) = Cardinality(Rows(lines))
                 /\ \A k \in DOMAIN out.nodes :
                       out.nodes[k] = Node(Fields(lines[RowAt(lines, k)])[2],
                                           GroupAt(lines, RowAt(lines, k)))

\* C14 witness: "UN 10.0.0.2", "Datacenter: DC2", "DN  10.0.0.10 x" gave a
\* Source without group and a Source of DC2.
C14_Witness ==
    /\ C14_Case
    /\ fnIn.report.lines = <<RUn2, RDc2, RDn10>>
    /\ fnOut.value.nodes = <<Node(Addresses[1], <<>>), Node(Addresses[2], <<"D", "C", "2">>)>>

\* C15 (as claimed): when the reader fails, ParseNodetoolStatus returns the
\* read error and no Sources, however many status rows were read before.
C15_ReadErrorIsReturned ==
    (fnOut.done /\ fnIn.kind = "status" /\ fnIn.report.status = "readerr") =>
        fnOut.value.err = "read" /\ fnOut.value.nodes = <<>>

\* When at least one status row with an address was read before the
\* failure, the read error is what is returned.
C15_HoldsOnceARowWasRead ==
    (/\ fnOut.done /\ fnIn.kind = "status" /\ fnIn.report.status = "readerr"
     /\ \E i \in Rows(fnIn.report.lines) :
           i <= fnIn.report.delivered /\ Len(Fields(fnIn.report.lines[i])) >= 2) =>
        fnOut.value.err = "read" /\ fnOut.value.nodes = <<>>

(***************************************************************************)
(* Properties of ByNodeIP.Less (SpecLess).                                 *)
(***************************************************************************)
\* a is before b in the order of the first place where they differ, a
\* proper prefix being before
LexBefore(a, b) ==
    \E k \in 1..(Len(a) + 1) :
        /\ k <= Len(b)
        /\ \A i \in 1..(k - 1) : a[i] = b[i]
        /\ k = Len(a) + 1 \/ a[k] < b[k]

\* C17: Less compares two addresses that both parse as IP addresses by
\* their octets, numerically, and any other pair by the bytes of the
\* address strings; 10.0.0.2 is before 10.0.0.10 and 192.168.1.3 before
\* 192.168.1.5 before 192.168.1.10.
C17_NumericWhenBothParse ==
    (fnOut.done /\ fnIn.kind = "less") =>
        /\ fnOut.ab = IF fnIn.a.kind = "ip" /\ fnIn.b.kind = "ip"
                      THEN LexBefore(fnIn.a.octets, fnIn.b.octets)
                      ELSE LexBefore(BytesOf(fnIn.a.text), BytesOf(fnIn.b.text))
        /\ (fnIn.a.octets = <<10, 0, 0, 2>> /\ fnIn.b.octets = <<10, 0, 0, 10>>) => fnOut.ab
        /\ (/\ fnIn.a.octets = <<192, 168, 1, 3>>
            /\ fnIn.b.octets = <<192, 168, 1, 5>>
            /\ fnIn.c.octets = <<192, 168, 1, 10>>) => fnOut.ab /\ fnOut.bc /\ fnOut.ac

\* C17 witness: 10.0.0.2 was found before 10.0.0.10, and 10.0.0.10 before
\* hostA by the bytes of the strings.
C17_Witness ==
    /\ fnOut.done
    /\ fnIn.kind = "less"
    /\ fnIn.a.octets = <<10, 0, 0, 2>>
    /\ fnIn.b.octets = <<10, 0, 0, 10>>
    /\ fnIn.c.text = <<"h", "o", "s", "t", "A">>
    /\ fnOut.ab /\ fnOut.bc

\* C18 (as claimed): Less is irreflexive and transitive over addresses
\* that parse and addresses that do not.
C18_NodeIPOrderIsTotal ==
    (fnOut.done /\ fnIn.kind = "less") =>
        /\ ~fnOut.aa
        /\ (fnOut.ab /\ fnOut.bc) => fnOut.ac

\* Over addresses that all parse, and over addresses none of which parses,
\* Less is irreflexive and transitive.
C18_HoldsWithinOneKind ==
    (fnOut.done /\ fnIn.kind = "less" /\ fnIn.a.kind = fnIn.b.kind /\ fnIn.b.kind = fnIn.c.kind) =>
        /\ ~fnOut.aa
        /\ (fnOut.ab /\ fnOut.bc) => fnOut.ac

(***************************************************************************)
(* Properties of the sort (SpecSort).                                      *)
(***************************************************************************)
\* the fields of a timestamp, most significant first
DateFields(t) == <<t.year, t.month, t.day, t.hour, t.min, t.sec, t.ms>>

\* entry x is not after entry y in the key of the criterion
KeyNotAfter(name, x, y) ==
    CASE name = "date" -> ~LexBefore(DateFields(y.Date), DateFields(x.Date))
      [] name = "loglevel" ->
            \E i, j \in 1..4 : /\ i <= j
                               /\ <<DEBUG, INFO, WARN, ERROR>>[i] = x.LogLevel
                               /\ <<DEBUG, INFO, WARN, ERROR>>[j] = y.LogLevel
      [] name = "linenumber" -> x.LineNumber <= y.LineNumber

\* C19: for date, loglevel and linenumber the sequence after the sort has
\* the same pointers as were collected, each as often, and is
\* non-decreasing in the key: timestamp, severity in the order DEBUG, INFO,
\* WARN, ERROR, or line number whatever the file.
C19_SortedPermutationByKey ==
    (mainPc = "print" /\ sortOption \in {"date", "loglevel", "linenumber"}) =>
        /\ SeqBag(logEntries) = SeqBag(sent)
        /\ \A i, j \in DOMAIN logEntries :
              i < j => KeyNotAfter(sortOption, Deref(logEntries[i]), Deref(logEntries[j]))

\* C19 witness: four entries of two sources were sorted by severity, and
\* the sort had to move entries: they were not collected in that order.
C19_Witness ==
    /\ mainPc = "print"
    /\ sortOption = "loglevel"
    /\ Len(logEntries) = 4
    /\ logEntries # sent
    /\ Deref(logEntries[1]).LogLevel = DEBUG
    /\ Deref(logEntries[4]).LogLevel = ERROR
    /\ Deref(logEntries[1]).LineNumber > Deref(logEntries[2]).LineNumber

C21_ReadmeSortNameIsAccepted ==
    sortOption = "LogLevel" => mainPc # "fatal"

(***************************************************************************)
(* Lines read while no entry is pending; order of the sends (SpecScan).    *)
(***************************************************************************)
\* line m of a file is read while no entry is pending: it is not a header
\* line, and the nearest header-shaped line before it, if there is one,
\* failed classification
DroppedAt(lines, m) ==
    /\ ~startsWithLogLevel(lines[m])
    /\ LET shaped == {j \in 1..(m - 1) : startsWithLogLevel(lines[j])}
       IN  shaped = {} \/ ~ValidHeader(lines[CHOOSE j \in shaped : \A i \in shaped : i <= j])

\* C25: a non-header line read while no entry is pending starts no entry
\* and is among the lines of no entry, where an entry that began at line k
\* and has n continuation lines is made of the lines k..k+n; and a file
\* without valid header line gives no entry, and no error when it is read
\* to its end.
C25_LinesWithoutPendingEntryAreDropped ==
    \A w \in Workers :
        LET lines == FileOf(w).lines
            read == FileOf(w).delivered
        IN  /\ \A i \in DOMAIN heap[w] :
                  LET k == heap[w][i].LineNumber
                      n == Len(Pieces(heap[w][i].Message)) - 1
                  IN  /\ k + n <= read
                      /\ heap[w][i].Message = JoinLines(lines, k, k + n)
                      /\ \A m \in 1..read : DroppedAt(lines, m) => (m < k \/ m > k + n)
            /\ (\A k \in 1..read : ~ValidHeader(lines[k])) =>
                  /\ heap[w] = <<>>
                  /\ OfWorker(sent, w) = <<>>
                  /\ (pc[w] = "done" /\ FileOf(w).status = "ok") => ferr[w] = "none"

\* C25 witness: of the lines "WARN 2023-13-07 ...", " b", "INFO ... a" the
\* scanner has made the one entry of line 3, and has returned.
C25_Witness ==
    /\ pc[1] = "done"
    /\ FileOf(1).lines = <<LineBadDate, LineCont, LineInfoA>>
    /\ Len(heap[1]) = 1
    /\ heap[1][1].LineNumber = 3
    /\ heap[1][1].Message = LineInfoA
    /\ Len(sent) = 1

\* C26: the entries one worker sends have strictly increasing line numbers
\* and are distinct pointers; a worker that has signalled completion has
\* sent all the entries of its file that pass the query chain, and sends
\* nothing afterwards.
C26_SentInFileOrderBeforeCompletion ==
    /\ [](\A w \in Workers :
            LET mine == OfWorker(sent, w)
            IN  /\ \A i, j \in DOMAIN mine :
                      i < j => /\ mine[i] # mine[j]
                               /\ Deref(mine[i]).LineNumber < Deref(mine[j]).LineNumber
                /\ pc[w] = "done" => SeqBag(Entries(mine)) = Contribution(w))
    /\ [][\A w \in Workers : pc[w] = "done" => OfWorker(sent', w) = OfWorker(sent, w)]_vars

\* C26 witness: a worker has sent the entries of lines 1, 2 and 3 and has
\* signalled completion.
C26_Witness ==
    /\ pc[1] = "done"
    /\ Len(sent) = 3
    /\ \A i \in 1..3 : Deref(sent[i]).LineNumber = i

(***************************************************************************)
(* The close and the completion counter (multi-source runs, Spec).         *)
(***************************************************************************)
\* the workers that have been started and have not signalled completion
Active == {w \in Workers : pc[w] \notin {"idle", "done"}}

\* what C27 says of the close and of the signals: the channel is closed by
\* the one step of the closing goroutine, no worker is at a send or can
\* come to one once it is closed, and the counter is the number of workers
\* started that have not signalled, so that each signals once and the
\* counter is never negative
ClosedOnceCountedOnce ==
    /\ closed <=> closerPc = "done"
    /\ closed => \A w \in Workers : pc[w] = "done"
    /\ wg = Cardinality(Active)
    /\ wg >= 0
    /\ \A w \in Workers : pc[w] = "done" => ferr[w] \in {"none", "open", "read"}

\* C27 (as claimed): ... and the counter, once a worker has signalled, is
\* zero only when all workers are done.
C27_CounterZeroOnlyWhenAllDone ==
    /\ ClosedOnceCountedOnce
    /\ (wg = 0 /\ \E w \in Workers : pc[w] = "done") => \A w \in Workers : pc[w] = "done"

\* C27 (amended): ... and the counter, once the launch loop has ended, is
\* zero only when all workers are done.
C27_CounterZeroAfterLaunchOnlyWhenAllDone ==
    /\ ClosedOnceCountedOnce
    /\ (wg = 0 /\ next > N) => \A w \in Workers : pc[w] = "done"

\* C27 witness: the channel is closed after two workers, one whose scan
\* failed and one whose scan succeeded, have signalled.
C27_Witness ==
    /\ closed
    /\ wg = 0
    /\ \E v, w \in Workers : ferr[v] = "none" /\ ferr[w] # "none"

(***************************************************************************)
(* matchQuery on every term list (SpecMatch).                              *)
(***************************************************************************)
\* C28 (as claimed): matchQuery returns a boolean without run-time failure
\* for every text and every term list, empty terms included, and the
\* boolean says whether the terms occur in order, an empty term occurring
\* at the current position and taking no text.
C28_MatchQueryNeverFails ==
    (fnOut.done /\ fnIn.kind = "match") =>
        /\ ~fnOut.value.panicked
        /\ fnOut.value.result = OccurInOrder(fnIn.text, fnIn.queries)

(***************************************************************************)
(* Properties of the whole runs (SpecMain).                                *)
(***************************************************************************)
\* the names of the -datacenters flag: its pieces between commas
SelectedGroups ==
    LET names == SplitComma(datacenters)
    IN  {names[k] : k \in DOMAIN names}

\* the places of the parsed nodes whose group is selected
SelectedPlaces == {i \in DOMAIN parsedNodes : parsedNodes[i].Datacenter \in SelectedGroups}

\* the k-th such place
SelectedPlace(k) ==
    CHOOSE i \in SelectedPlaces : Cardinality({j \in SelectedPlaces : j <= i}) = k

\* the filtered nodes have been computed: main is past main.go:135, be it
\* at the fatal exit for the sort name (the fatal exit for the status file
\* leaves no parsed node)
Filtered ==
    /\ ~listDCs
    /\ \/ mainPc \in {"config", "launch", "collect", "sort", "print", "exit"}
       \/ mainPc = "fatal" /\ parsedNodes # <<>>

\* C22: the filtered nodes are the parsed nodes whose group is one of the
\* selected names, all of them, in the order of the report; workers exist
\* only for them, and every entry sent or collected comes from the log
\* file of a node of a selected group.
C22_OnlySelectedGroupsAreScanned ==
    /\ ~Filtered => nodes = <<>> /\ sent = <<>>
    /\ Filtered =>
          /\ Len(nodes) = Cardinality(SelectedPlaces)
          /\ \A k \in DOMAIN nodes : nodes[k] = parsedNodes[SelectedPlace(k)]
          /\ DOMAIN pc = DOMAIN nodes
          /\ \A w \in DOMAIN pc : pc[w] # "idle" => nodes[w].Datacenter \in SelectedGroups
          /\ \A i \in DOMAIN sent :
                \E p \in SelectedPlaces : Deref(sent[i]).FilePath = LogFile(parsedNodes[p])
          /\ \A i \in DOMAIN logEntries :
                \E p \in SelectedPlaces : Deref(logEntries[i]).FilePath = LogFile(parsedNodes[p])

\* C22 witness: of the five nodes of the report the two of DC2 were
\* selected by "DC2,DC9", and entries of both were collected and printed.
C22_Witness ==
    /\ mainPc = "exit"
    /\ ~listDCs
    /\ Len(parsedNodes) = 5
    /\ Len(nodes) = 2
    /\ nodes[1].Address = Addresses[2] /\ nodes[2].Address = Addresses[1]
    /\ Len(output) = 3

\* the groups of the parsed nodes
Groups == {parsedNodes[i].Datacenter : i \in DOMAIN parsedNodes}

\* C23: in list-only mode no filtering is done, no worker exists, nothing
\* is opened, sent, collected or sorted, whatever the other flags are; and
\* what is printed is the heading and every distinct group of the parsed
\* nodes, each once.
C23_ListModePrintsGroupsAndScansNothing ==
    listDCs =>
        /\ mainPc \in {"args", "usage", "parse", "fatal", "list", "exit"}
        /\ nodes = <<>> /\ pc = <<>> /\ heap = <<>>
        /\ next = 1 /\ wg = 0 /\ closerPc = "idle"
        /\ sent = <<>> /\ chan = <<>> /\ logEntries = <<>>
        /\ mainPc = "exit" =>
              /\ output[1] = tDatacenters
              /\ Len(output) = 1 + Cardinality(Groups)
              /\ {output[i] : i \in 2..Len(output)} = Groups
        /\ mainPc # "exit" => output = <<>>

\* C23 witness: list-only mode with no group selected and the sort name
\* LogLevel has printed the three groups of the five nodes.
C23_Witness ==
    /\ listDCs
    /\ mainPc = "exit"
    /\ datacenters = <<>>
    /\ sortOption = "LogLevel"
    /\ Len(parsedNodes) = 5
    /\ Len(output) = 4

\* the groups in the order of their first appearance among the first n
\* parsed nodes
RECURSIVE FirstAppearances(_)
FirstAppearances(n) ==
    IF n = 0 THEN <<>>
    ELSE IF \E j \in 1..(n - 1) : parsedNodes[j].Datacenter = parsedNodes[n].Datacenter
         THEN FirstAppearances(n - 1)
         ELSE Append(FirstAppearances(n - 1), parsedNodes[n].Datacenter)

\* C24 (as claimed): the groups are printed in the order of their first
\* appearance in the node list.
C24_GroupsPrintedInOrderOfFirstAppearance ==
    (listDCs /\ mainPc = "exit") =>
        output = <<tDatacenters>> \o FirstAppearances(Len(parsedNodes))
====
